---------------------------- MODULE Spec2Model ----------------------------
(***************************************************************************)
(* State-machine model of MMObjectDetectionTask (mmdet/apis/ote/apis/      *)
(* detection/task.py) together with the parts of MMDetectionConfigManager  *)
(* it drives.  Two threads act on one task object: the platform's main     *)
(* thread (constructor, train submission, cancel_training,                 *)
(* optimize_loaded_model) and the worker thread that runs train().         *)
(* Every statement of train() that reads or writes a field the main thread *)
(* can touch is a step of its own, so that a cancel may fall between any   *)
(* two of them.                                                            *)
(***************************************************************************)
EXTENDS Integers, Sequences, FiniteSets, TLC

\* ------------------------------------------------------------------ bounds
\* number of train calls submitted to one task
MaxRounds == 2
\* scores (mAP) are drawn from 0..MaxScore
MaxScore == 1

Scores == 0..MaxScore
\* the datasets a train call may be given
Datasets == {<<"dataset", 1>>}

\* ------------------------------------------------------------------ values
\* Python's None for a dataset / a model attribute
None == <<"None", 0>>

\* directories: the scratch space and the per-round checkpoint directories
ScratchSpace == <<"scratch_space", 0>>
CheckpointDir(n) == <<"checkpoints_round", n>>
ExpName(n) == <<"train_round", n>>

\* sc_sdk Label entities of the task environment, and what a label list of a
\* Config holds: the entities, or (in a Config parsed from text) their names
Label(n) == <<"Label", n>>
Str(n) == <<"str", n>>
TaskLabels == <<Label("rectangle"), Label("triangle")>>
IsLabelEntities(ls) == \A i \in DOMAIN ls : ls[i][1] = "Label"
\* [label.name for label in labels]
LabelNames(ls) == [i \in DOMAIN ls |-> Str(ls[i][2])]

\* an mmcv Config, reduced to the entries the task reads or writes
Cfg(wd, exp, ds) ==
    [work_dir |-> wd, exp_name |-> exp, ote_dataset |-> ds,
     labels |-> TaskLabels]
NoCfg == Cfg(<<"unset", 0>>, <<"unset", 0>>, None)
\* the pretty text of a Config: the printable entries, no dataset entities
CfgText(wd, exp) ==
    [text_work_dir |-> wd, text_exp_name |-> exp,
     text_labels |-> LabelNames(TaskLabels)]
NoCfgText == CfgText(<<"unset", 0>>, <<"unset", 0>>)
\* the configuration text stored with a model saved by an earlier task
StoredCfgText == CfgText(<<"earlier_work_dir", 0>>, <<"earlier_round", 0>>)

\* a torch module: its weights and its cfg attribute
Module(w, c) == [w |-> w, cfg |-> c]
NoModule == Module(None, NoCfg)

PretrainedW == <<"pretrained", 0>>
StoredW == <<"stored", 0>>
RandomW(r) == <<"random_init", r>>
LastW(r) == <<"last_epoch", r>>
BestW(r) == <<"best_mAP", r>>

\* what the bytes of a saved model turn out to be when load_model reads them
Blobs == {"ok", "bad_bytes", "bad_config", "bad_architecture", "bad_state_dict"}

\* sc_sdk Model entities: NullModel, or a model with data = {state_dict, config}
NullModel ==
    [null |-> TRUE, blob |-> "ok", state_dict |-> None, config |-> NoCfgText,
     score |-> 0]
SavedModel(b) ==
    [null |-> FALSE, blob |-> b, state_dict |-> StoredW, config |-> StoredCfgText,
     score |-> 0]
IsNullModel(m) == m.null

VARIABLES
    main_pc,            \* main thread: "ctor", "ready", "cancel_file", "failed"
    load_error,         \* exception load_model raised in the constructor
    te_model,           \* task_environment.model
    should_stop,        \* self.should_stop
    is_training,        \* self.is_training
    train_model,        \* self.train_model
    inference_model,    \* self.inference_model
    config,             \* config_manager.config
    checkpoint_dirs,    \* indices N of the existing checkpoints_round_N
    stop_files,         \* directories holding a '.stop_training' file
    config_py,          \* the 'config.py' files written: directory and text
    pc,                 \* position of the worker thread inside train()
    dataset,            \* train(): dataset
    train_on_empty_model, \* train(): train_parameters.train_on_empty_model
    old_train_model,    \* train(): old_train_model
    train_from_scratch, \* train(): train_from_scratch
    pretraining_performance, \* train(): pretraining_performance
    compare_performance, \* train(): compare_performance
    train_cfg,          \* _do_model_training(): config handed to train_detector
    tick,               \* iterations of the training loop (parity)
    best_score,         \* train(): best_score
    improved,           \* train(): improved
    result,             \* value returned by the last train call
    optimized,          \* what optimize_loaded_model raised or returned, if it
                        \* made the last step (its caller takes it at once)
    \* history variables (observers, never read by the program's actions)
    phases,             \* phases the current train call went through
    path,               \* how the current train call ended
    pre,                \* fields of the task when the train call started
    n_calls,            \* train calls started
    n_returns,          \* train calls returned
    cancelled_in_call,  \* cancel_training was called during the current call
    cancelled_calls,    \* train calls during which cancel_training was called
    \* the config manager on its own (MMDetectionConfigManager)
    cm_pc,              \* "new", "ready" or "failed" (the constructor raised)
    model_file,         \* content of the model config file of the template
    env_labels,         \* task_environment.labels
    label_names,        \* self.label_names
    conf_params,        \* the most recent configurable parameters passed in
    manager_config,     \* self.config, the full nested configuration
    custom_lr_schedule, \* self.custom_lr_schedule
    manager_error,      \* exception the last manager call raised, or "none"
    switched,           \* history: the last manager call was an update that
                        \* named another schedule than the parameters before
    composed,           \* files given to _compose_config and the config made
    \* analyse / compute_performance on their own
    postprocessing,     \* postprocessing parameters of the task environment
    analysed,           \* the last analyse call: its input and its threshold
    performance,        \* the last compute_performance call
    \* the dataset adapter on its own (MMDatasetAdapter)
    ds_pc,              \* "new", "ready" or "failed" (the constructor raised)
    ds_files,           \* the annotation files given for the three subsets
    adapter,            \* the MMDatasetAdapter object
    ds_error,           \* exception the constructor raised, or "none"
    returned            \* what get_subset returned last for each subset

task_vars ==
    <<main_pc, load_error, te_model, should_stop, is_training, train_model,
      inference_model, config, checkpoint_dirs, stop_files, config_py>>
train_vars ==
    <<pc, dataset, train_on_empty_model, old_train_model, train_from_scratch,
      pretraining_performance, compare_performance, train_cfg, tick,
      best_score, improved, result>>
hist_vars ==
    <<phases, path, pre, n_calls, n_returns, cancelled_in_call,
      cancelled_calls>>
manager_vars ==
    <<cm_pc, model_file, env_labels, label_names, conf_params,
      manager_config, custom_lr_schedule, manager_error, switched,
      composed>>
params_vars == <<postprocessing, analysed, performance>>
dataset_vars == <<ds_pc, ds_files, adapter, ds_error, returned>>
\* the variables of the task with its two threads
thread_vars == <<task_vars, train_vars, optimized, hist_vars>>
vars == <<thread_vars, manager_vars, params_vars, dataset_vars>>

\* ------------------------------------------------------------ config manager
\* config_copy: a deep copy, equal in value
ConfigCopy(c) == c

\* config_to_string: on a deep copy, the dataset entities are removed and the
\* label entities replaced by their names, then the copy is pretty-printed.
\* [label.name for label in config.labels] needs label entities.
ConfigToString(c) ==
    IF IsLabelEntities(c.labels)
    THEN LET config_copy == [c EXCEPT !.ote_dataset = None,
                                      !.labels = LabelNames(c.labels)]
         IN  [text_work_dir |-> config_copy.work_dir,
              text_exp_name |-> config_copy.exp_name,
              text_labels |-> config_copy.labels]
    ELSE "AttributeError: 'str' object has no attribute 'name'"

\* a config_to_string that cleans up the config it was given, not a copy
ConfigAfterToString_NoDeepCopy(c) ==
    [c EXCEPT !.ote_dataset = None, !.labels = LabelNames(c.labels)]

\* line 186: the config given to config_to_string, after the call; the clean-up
\* is done on a deep copy
ConfigAfterToString(c) == c

\* config_from_string: parses the text into a Config
ConfigFromString(s) ==
    [work_dir |-> s.text_work_dir, exp_name |-> s.text_exp_name,
     ote_dataset |-> None, labels |-> s.text_labels]

\* update_dataset_subsets: data.{test,train,val}.ote_dataset := subsets of ds
UpdateDatasetSubsets(c, ds) == [c EXCEPT !.ote_dataset = ds]

\* ------------------------------------------------------------------ initial
NoOptimized == [failing |-> "none", raised |-> "none", models |-> <<>>]
NoPre == [te_model |-> NullModel, inference_model |-> NoModule,
          train_model |-> NoModule]

\* the config manager, _compose_config and the analysis are looked at in
\* specifications of their own; in the others they stay as they are
NoManager ==
    /\ cm_pc = "none"
    /\ model_file = None
    /\ env_labels = <<>>
    /\ label_names = <<>>
    /\ conf_params = None
    /\ manager_config = None
    /\ custom_lr_schedule = None
    /\ manager_error = "none"
    /\ switched = FALSE
NoComposed == composed = None
NoAnalysis ==
    /\ postprocessing = None
    /\ analysed = None
    /\ performance = None
NoDataset ==
    /\ ds_pc = "none"
    /\ ds_files = None
    /\ adapter = None
    /\ ds_error = "none"
    /\ returned = None

\* train()'s local variables before a call and after its return
NoLocals ==
    /\ dataset = None
    /\ train_on_empty_model = FALSE
    /\ old_train_model = NoModule
    /\ train_from_scratch = FALSE
    /\ pretraining_performance = 0
    /\ compare_performance = FALSE
    /\ train_cfg = NoCfg
    /\ tick = FALSE
    /\ best_score = 0
    /\ improved = FALSE

\* the locals of train() go out of scope when it returns
ForgetLocals ==
    /\ dataset' = None
    /\ train_on_empty_model' = FALSE
    /\ old_train_model' = NoModule
    /\ train_from_scratch' = FALSE
    /\ pretraining_performance' = 0
    /\ compare_performance' = FALSE
    /\ train_cfg' = NoCfg
    /\ tick' = FALSE
    /\ best_score' = 0
    /\ improved' = FALSE

\* the fields of a task object when __init__ reaches load_model
TaskInit ==
    /\ main_pc = "ctor"
    /\ load_error = "none"
    /\ te_model \in {NullModel} \cup {SavedModel(b) : b \in Blobs}
    /\ should_stop = FALSE
    /\ is_training = FALSE
    /\ train_model = NoModule
    /\ inference_model = NoModule
    /\ config = Cfg(ScratchSpace, <<"default", 0>>, None)
    /\ checkpoint_dirs = {}
    /\ stop_files = {}
    /\ config_py = {}
    /\ pc = "idle"
    /\ NoLocals
    /\ result = NullModel
    /\ optimized = NoOptimized
    /\ phases = <<>>
    /\ path = "none"
    /\ pre = NoPre
    /\ n_calls = 0
    /\ n_returns = 0
    /\ cancelled_in_call = FALSE
    /\ cancelled_calls = 0

Init ==
    /\ TaskInit
    /\ NoManager
    /\ NoComposed
    /\ NoAnalysis
    /\ NoDataset

\* ---------------------------------------------------------------- load_model
ValueErrorInvalidModel ==
    "ValueError: Could not load the saved model. The model file structure is invalid."

\* The exception load_model lets out for the model m of the task environment.
\* Only torch_model.load_state_dict sits inside the try block (lines 240-246);
\* _get_model_from_bytes, config_from_string and _create_model are called
\* before it, so what they raise leaves load_model as it is.
LoadModelRaises(m) ==
    IF IsNullModel(m) THEN "none"
    ELSE IF m.blob = "bad_bytes" THEN "error raised by torch.load"
    ELSE IF m.blob = "bad_config" THEN "error raised by Config.fromfile"
    ELSE IF m.blob = "bad_architecture" THEN "error raised by build_detector"
    ELSE IF m.blob = "bad_state_dict" THEN ValueErrorInvalidModel
    ELSE "none"

\* a load_model that gives the inference model the manager's config
LoadedInferenceModel_ManagerConfig(m, c) ==
    IF IsNullModel(m)
    THEN Module(PretrainedW, ConfigCopy(c))
    ELSE Module(m.state_dict, ConfigCopy(c))

\* inference_model after a successful load_model
LoadedInferenceModel(m, c) ==
    IF IsNullModel(m)
    THEN Module(PretrainedW, ConfigAfterToString(ConfigCopy(c)))
    ELSE Module(m.state_dict, ConfigFromString(m.config))

\* train_model after a successful load_model
LoadedTrainModel(m, c) ==
    IF IsNullModel(m)
    THEN Module(PretrainedW, ConfigCopy(c))
    ELSE Module(m.state_dict, ConfigCopy(c))

\* __init__: sets the fields, then calls load_model; succeeds
ConstructTask ==
    /\ main_pc = "ctor"
    /\ LoadModelRaises(te_model) = "none"
    /\ inference_model' = LoadedInferenceModel(te_model, config)
    /\ train_model' = LoadedTrainModel(te_model, config)
    /\ main_pc' = "ready"
    /\ optimized' = NoOptimized
    /\ UNCHANGED <<manager_vars, params_vars, dataset_vars>>
    /\ UNCHANGED <<load_error, te_model, should_stop, is_training, config,
                   checkpoint_dirs, stop_files, config_py, train_vars,
                   phases, path, pre, n_calls, n_returns, cancelled_in_call,
                   cancelled_calls>>

\* __init__: load_model raises, no task object comes to exist
ConstructTaskFails ==
    /\ main_pc = "ctor"
    /\ LoadModelRaises(te_model) # "none"
    /\ load_error' = LoadModelRaises(te_model)
    /\ main_pc' = "failed"
    /\ optimized' = NoOptimized
    /\ UNCHANGED <<manager_vars, params_vars, dataset_vars>>
    /\ UNCHANGED <<te_model, should_stop, is_training, train_model,
                   inference_model, config, checkpoint_dirs, stop_files,
                   config_py,
                   train_vars,
                   phases, path, pre, n_calls, n_returns, cancelled_in_call,
                   cancelled_calls>>

\* load_model called again on the task, as the platform does to reload the
\* model (test_ote_api.py, line 258), while no train call is in progress
LoadModel ==
    /\ main_pc = "ready"
    /\ pc = "idle"
    /\ LoadModelRaises(te_model) = "none"
    /\ inference_model' = LoadedInferenceModel(te_model, config)
    /\ train_model' = LoadedTrainModel(te_model, config)
    /\ optimized' = NoOptimized
    /\ UNCHANGED <<manager_vars, params_vars, dataset_vars>>
    /\ UNCHANGED <<main_pc, load_error, te_model, should_stop, is_training,
                   config, checkpoint_dirs, stop_files, config_py, train_vars,
                   phases, path, pre, n_calls, n_returns, cancelled_in_call,
                   cancelled_calls>>

\* ------------------------------------------------------------------- train
\* the main thread hands train(dataset, train_parameters) to the worker thread
SubmitTrain ==
    /\ main_pc = "ready"
    /\ pc = "idle"
    /\ n_calls < MaxRounds
    /\ \E d \in Datasets, p \in BOOLEAN :
        /\ dataset' = d
        /\ train_on_empty_model' = p
    /\ pc' = "start"
    /\ n_calls' = n_calls + 1
    /\ phases' = <<>>
    /\ path' = "none"
    /\ pre' = [te_model |-> te_model, inference_model |-> inference_model,
               train_model |-> train_model]
    /\ cancelled_in_call' = FALSE
    /\ optimized' = NoOptimized
    /\ UNCHANGED <<manager_vars, params_vars, dataset_vars>>
    /\ UNCHANGED <<task_vars, old_train_model, train_from_scratch,
                   pretraining_performance, compare_performance, train_cfg,
                   tick, best_score, improved, result, n_returns,
                   cancelled_calls>>

\* lines 441-443: configure the dataset subsets in the manager's config
ConfigureDatasets ==
    /\ pc = "start"
    /\ config' = UpdateDatasetSubsets(config, dataset)
    /\ pc' = "checkpoint_dirs"
    /\ phases' = Append(phases, "subsets")
    /\ optimized' = NoOptimized
    /\ UNCHANGED <<manager_vars, params_vars, dataset_vars>>
    /\ UNCHANGED <<main_pc, load_error, te_model, should_stop, is_training,
                   train_model, inference_model, checkpoint_dirs, stop_files,
                   config_py,
                   dataset, train_on_empty_model, old_train_model,
                   train_from_scratch, pretraining_performance,
                   compare_performance, train_cfg, tick, best_score, improved,
                   result, path, pre, n_calls, n_returns,
                   cancelled_in_call, cancelled_calls>>

\* a save_config_to_file that writes to the scratch space
SaveConfigToFile_ScratchSpace(files, c) ==
    {f \in files : f.dir # ScratchSpace}
        \cup {[dir |-> ScratchSpace, text |-> ConfigToString(c)]}

\* save_config_to_file: 'config.py' in the config's work_dir holds its text
SaveConfigToFile(files, c) ==
    {f \in files : f.dir # c.work_dir}
        \cup {[dir |-> c.work_dir, text |-> ConfigToString(c)]}

\* a _create_training_checkpoint_dirs that leaves work_dir as it was
WithRoundDir_WorkDirNotSet(c, dirs) ==
    [c EXCEPT !.exp_name = ExpName(Cardinality(dirs))]

\* _create_training_checkpoint_dirs: the config after the round directory is
\* made
WithRoundDir(c, dirs) ==
    [c EXCEPT !.work_dir = CheckpointDir(Cardinality(dirs)),
              !.exp_name = ExpName(Cardinality(dirs))]

\* line 447: _create_training_checkpoint_dirs
CreateTrainingCheckpointDirs ==
    /\ pc = "checkpoint_dirs"
    /\ Cardinality(checkpoint_dirs) \notin checkpoint_dirs
    /\ checkpoint_dirs' = checkpoint_dirs \cup {Cardinality(checkpoint_dirs)}
    /\ config_py' =
          SaveConfigToFile(config_py, WithRoundDir(config, checkpoint_dirs))
    /\ config' = ConfigAfterToString(WithRoundDir(config, checkpoint_dirs))
    /\ pc' = "from_scratch"
    /\ phases' = Append(phases, "checkpoint_dir")
    /\ optimized' = NoOptimized
    /\ UNCHANGED <<manager_vars, params_vars, dataset_vars>>
    /\ UNCHANGED <<main_pc, load_error, te_model, should_stop, is_training,
                   train_model, inference_model, stop_files,
                   dataset, train_on_empty_model, old_train_model,
                   train_from_scratch, pretraining_performance,
                   compare_performance, train_cfg, tick, best_score, improved,
                   result, path, pre, n_calls, n_returns,
                   cancelled_in_call, cancelled_calls>>

\* line 450: _is_train_from_scratch; _create_model returns a module that has
\* no cfg attribute yet
IsTrainFromScratch ==
    /\ pc = "from_scratch"
    /\ old_train_model' = train_model
    /\ train_from_scratch' = train_on_empty_model
    /\ train_model' = IF train_on_empty_model
                      THEN Module(RandomW(n_calls), NoCfg)
                      ELSE train_model
    /\ pc' = "pre_evaluation"
    /\ optimized' = NoOptimized
    /\ UNCHANGED <<manager_vars, params_vars, dataset_vars>>
    /\ UNCHANGED <<main_pc, load_error, te_model, should_stop, is_training,
                   inference_model, config, checkpoint_dirs, stop_files,
                   config_py,
                   dataset, train_on_empty_model, pretraining_performance,
                   compare_performance, train_cfg, tick, best_score, improved,
                   result, phases, path, pre, n_calls, n_returns,
                   cancelled_in_call, cancelled_calls>>

\* line 453: _do_pre_evaluation; the score is whatever the evaluation yields
DoPreEvaluation ==
    /\ pc = "pre_evaluation"
    /\ IF inference_model # NoModule
       THEN /\ inference_model' =
                [inference_model EXCEPT
                    !.cfg = UpdateDatasetSubsets(inference_model.cfg, dataset)]
            /\ pretraining_performance' \in Scores
            /\ compare_performance' = TRUE
       ELSE /\ inference_model' = inference_model
            /\ pretraining_performance' = 0
            /\ compare_performance' = FALSE
    /\ pc' = "check_stop_1"
    /\ phases' = Append(phases, "pre_evaluation")
    /\ optimized' = NoOptimized
    /\ UNCHANGED <<manager_vars, params_vars, dataset_vars>>
    /\ UNCHANGED <<main_pc, load_error, te_model, should_stop, is_training,
                   train_model, config, checkpoint_dirs, stop_files,
                   config_py,
                   dataset, train_on_empty_model, old_train_model,
                   train_from_scratch, train_cfg, tick, best_score, improved,
                   result, path, pre, n_calls, n_returns,
                   cancelled_in_call, cancelled_calls>>

\* a train() that goes from the pre-evaluation straight to the best checkpoint
AfterPreEvaluation_SkipsTraining(stop) ==
    IF stop THEN "stopped_1" ELSE "load_best"

\* line 457: where train() goes after the pre-evaluation
AfterPreEvaluation(stop) == IF stop THEN "stopped_1" ELSE "do_model_training"

\* line 457: if self.should_stop
CheckStopBeforeTraining ==
    /\ pc = "check_stop_1"
    /\ pc' = AfterPreEvaluation(should_stop)
    /\ optimized' = NoOptimized
    /\ UNCHANGED <<manager_vars, params_vars, dataset_vars>>
    /\ UNCHANGED <<task_vars, dataset, train_on_empty_model, old_train_model,
                   train_from_scratch, pretraining_performance,
                   compare_performance, train_cfg, tick, best_score, improved,
                   result, phases, path, pre, n_calls, n_returns,
                   cancelled_in_call, cancelled_calls>>

\* a stop before training that forgets to restore the old training model
RestoredBeforeTraining_NotRestored(from_scratch, old, current) == current

\* lines 459-460: the training model after a stop before training
RestoredBeforeTraining(from_scratch, old, current) ==
    IF from_scratch THEN old ELSE current

\* lines 458-460: reset the flag, restore the old training model
StopBeforeTraining ==
    /\ pc = "stopped_1"
    /\ should_stop' = FALSE
    /\ train_model' =
          RestoredBeforeTraining(train_from_scratch, old_train_model, train_model)
    /\ pc' = "return_cancelled"
    /\ path' = "stopped_before_training"
    /\ optimized' = NoOptimized
    /\ UNCHANGED <<manager_vars, params_vars, dataset_vars>>
    /\ UNCHANGED <<main_pc, load_error, te_model, is_training,
                   inference_model, config, checkpoint_dirs, stop_files,
                   config_py,
                   dataset, train_on_empty_model, old_train_model,
                   train_from_scratch, pretraining_performance,
                   compare_performance, train_cfg, tick, best_score, improved,
                   result, phases, pre, n_calls, n_returns,
                   cancelled_in_call, cancelled_calls>>

\* lines 461 and 472: return self.task_environment.model
ReturnCancelled ==
    /\ pc = "return_cancelled"
    /\ result' = te_model
    /\ pc' = "idle"
    /\ n_returns' = n_returns + 1
    /\ ForgetLocals
    /\ phases' = <<>>
    /\ pre' = NoPre
    /\ optimized' = NoOptimized
    /\ UNCHANGED <<manager_vars, params_vars, dataset_vars>>
    /\ UNCHANGED <<task_vars, path, n_calls, cancelled_in_call,
                   cancelled_calls>>


\* lines 354-368: _do_model_training up to the call of train_detector
DoModelTraining ==
    /\ pc = "do_model_training"
    /\ train_cfg' = ConfigCopy(config)
    /\ train_model' = [train_model EXCEPT !.cfg = ConfigCopy(config)]
    /\ is_training' = TRUE
    /\ pc' = "train_detector"
    /\ optimized' = NoOptimized
    /\ UNCHANGED <<manager_vars, params_vars, dataset_vars>>
    /\ UNCHANGED <<main_pc, load_error, te_model, should_stop,
                   inference_model, config, checkpoint_dirs, stop_files,
                   config_py,
                   dataset, train_on_empty_model, old_train_model,
                   train_from_scratch, pretraining_performance,
                   compare_performance, tick, best_score, improved,
                   result, phases, path, pre, n_calls, n_returns,
                   cancelled_in_call, cancelled_calls>>

\* the runner's poll: a '.stop_training' file in the work_dir it was given
SeesStopFile(c, files) == c.work_dir \in files

\* train_detector, one iteration: no stop file seen, the weights are updated
TrainLoopIteration ==
    /\ pc = "train_detector"
    /\ ~SeesStopFile(train_cfg, stop_files)
    /\ tick' = ~tick
    /\ train_model' = [train_model EXCEPT !.w = LastW(n_calls)]
    /\ optimized' = NoOptimized
    /\ UNCHANGED <<manager_vars, params_vars, dataset_vars>>
    /\ UNCHANGED <<main_pc, load_error, te_model, should_stop, is_training,
                   inference_model, config, checkpoint_dirs, stop_files,
                   config_py,
                   pc, dataset, train_on_empty_model, old_train_model,
                   train_from_scratch, pretraining_performance,
                   compare_performance, train_cfg, best_score, improved,
                   result, phases, path, pre, n_calls, n_returns,
                   cancelled_in_call, cancelled_calls>>

\* train_detector returns because the runner saw the stop file
TrainLoopStops ==
    /\ pc = "train_detector"
    /\ SeesStopFile(train_cfg, stop_files)
    /\ train_model' = [train_model EXCEPT !.w = LastW(n_calls)]
    /\ pc' = "check_stop_2"
    /\ phases' = Append(phases, "training")
    /\ optimized' = NoOptimized
    /\ UNCHANGED <<manager_vars, params_vars, dataset_vars>>
    /\ UNCHANGED <<main_pc, load_error, te_model, should_stop, is_training,
                   inference_model, config, checkpoint_dirs, stop_files,
                   config_py,
                   dataset, train_on_empty_model, old_train_model,
                   train_from_scratch, pretraining_performance,
                   compare_performance, train_cfg, tick, best_score, improved,
                   result, path, pre, n_calls, n_returns,
                   cancelled_in_call, cancelled_calls>>

\* train_detector returns because max_epochs is reached
TrainLoopCompletes ==
    /\ pc = "train_detector"
    /\ ~SeesStopFile(train_cfg, stop_files)
    /\ train_model' = [train_model EXCEPT !.w = LastW(n_calls)]
    /\ pc' = "check_stop_2"
    /\ phases' = Append(phases, "training")
    /\ optimized' = NoOptimized
    /\ UNCHANGED <<manager_vars, params_vars, dataset_vars>>
    /\ UNCHANGED <<main_pc, load_error, te_model, should_stop, is_training,
                   inference_model, config, checkpoint_dirs, stop_files,
                   config_py,
                   dataset, train_on_empty_model, old_train_model,
                   train_from_scratch, pretraining_performance,
                   compare_performance, train_cfg, tick, best_score, improved,
                   result, path, pre, n_calls, n_returns,
                   cancelled_in_call, cancelled_calls>>

\* line 468: where train() goes after train_detector has returned
AfterTraining(stop) == IF stop THEN "stopped_2" ELSE "load_best"

\* line 468: if self.should_stop
CheckStopAfterTraining ==
    /\ pc = "check_stop_2"
    /\ pc' = AfterTraining(should_stop)
    /\ optimized' = NoOptimized
    /\ UNCHANGED <<manager_vars, params_vars, dataset_vars>>
    /\ UNCHANGED <<task_vars, dataset, train_on_empty_model, old_train_model,
                   train_from_scratch, pretraining_performance,
                   compare_performance, train_cfg, tick, best_score, improved,
                   result, phases, path, pre, n_calls, n_returns,
                   cancelled_in_call, cancelled_calls>>

\* a cancelled training that keeps the partly trained model
RestoredAfterTraining_NotRestored(old, current) == current

\* line 471: the training model after a cancelled training
RestoredAfterTraining(old, current) == old

\* lines 469-471: reset the flag, restore the old training model
StopAfterTraining ==
    /\ pc = "stopped_2"
    /\ should_stop' = FALSE
    /\ train_model' = RestoredAfterTraining(old_train_model, train_model)
    /\ pc' = "return_cancelled"
    /\ path' = "stopped_after_training"
    /\ optimized' = NoOptimized
    /\ UNCHANGED <<manager_vars, params_vars, dataset_vars>>
    /\ UNCHANGED <<main_pc, load_error, te_model, is_training,
                   inference_model, config, checkpoint_dirs, stop_files,
                   config_py,
                   dataset, train_on_empty_model, old_train_model,
                   train_from_scratch, pretraining_performance,
                   compare_performance, train_cfg, tick, best_score, improved,
                   result, phases, pre, n_calls, n_returns,
                   cancelled_in_call, cancelled_calls>>

\* a comparison that takes an equal score for an improvement
Improved_OrEqual(compare, best, pretraining) == compare /\ best >= pretraining

\* lines 395-398: whether the model has improved
Improved(compare, best, pretraining) == compare /\ best > pretraining

\* lines 475-476: _load_best_model_and_check_if_model_improved; the best score
\* is the one the training round stored in latest.pth
LoadBestModelAndCheckIfModelImproved ==
    /\ pc = "load_best"
    /\ \E s \in Scores :
        /\ best_score' = s
        /\ improved' = Improved(compare_performance, s, pretraining_performance)
    /\ train_model' = [train_model EXCEPT !.w = BestW(n_calls)]
    /\ pc' = "decide"
    /\ phases' = Append(phases, "load_best")
    /\ optimized' = NoOptimized
    /\ UNCHANGED <<manager_vars, params_vars, dataset_vars>>
    /\ UNCHANGED <<main_pc, load_error, te_model, should_stop, is_training,
                   inference_model, config, checkpoint_dirs, stop_files,
                   config_py,
                   dataset, train_on_empty_model, old_train_model,
                   train_from_scratch, pretraining_performance,
                   compare_performance, train_cfg, tick,
                   result, path, pre, n_calls, n_returns,
                   cancelled_in_call, cancelled_calls>>

\* a train() that saves a model only if it improved
ShouldPersist_OnlyImproved(imp, m) == imp

\* line 478: a new model is saved if the model improved or there is none yet
ShouldPersist(imp, m) == imp \/ IsNullModel(m)

\* a _get_model_bytes that stores the text of the manager's config as it was
\* when the task was made, not of the training model's cfg
NewModel_InitialConfig(tm, score) ==
    [null |-> FALSE, blob |-> "ok", state_dict |-> tm.w,
     config |-> ConfigToString(Cfg(ScratchSpace, <<"default", 0>>, None)),
     score |-> score]

\* lines 413-423: the Model entity _persist_new_model builds
NewModel(tm, score) ==
    [null |-> FALSE, blob |-> "ok", state_dict |-> tm.w,
     config |-> ConfigToString(tm.cfg), score |-> score]

\* lines 478-487: _persist_new_model
PersistNewModel ==
    /\ pc = "decide"
    /\ ShouldPersist(improved, te_model)
    /\ te_model' =
          NewModel([train_model EXCEPT !.cfg = ConfigCopy(config)], best_score)
    /\ train_model' =
          [train_model EXCEPT !.cfg = ConfigAfterToString(ConfigCopy(config))]
    /\ inference_model' = train_model'
    /\ pc' = "finish"
    /\ phases' = Append(phases, "persist")
    /\ path' = "persisted"
    /\ optimized' = NoOptimized
    /\ UNCHANGED <<manager_vars, params_vars, dataset_vars>>
    /\ UNCHANGED <<main_pc, load_error, should_stop, is_training,
                   config, checkpoint_dirs, stop_files,
                   config_py,
                   dataset, train_on_empty_model, old_train_model,
                   train_from_scratch, pretraining_performance,
                   compare_performance, train_cfg, tick, best_score, improved,
                   result, pre, n_calls, n_returns,
                   cancelled_in_call, cancelled_calls>>

\* lines 490-492: the training model when no new model is saved
RestoredNotImproved(from_scratch, old, current) ==
    IF from_scratch THEN old ELSE current

\* lines 488-492: the model has not improved
KeepOldModel ==
    /\ pc = "decide"
    /\ ~ShouldPersist(improved, te_model)
    /\ train_model' =
          RestoredNotImproved(train_from_scratch, old_train_model, train_model)
    /\ pc' = "finish"
    /\ path' = "not_improved"
    /\ optimized' = NoOptimized
    /\ UNCHANGED <<manager_vars, params_vars, dataset_vars>>
    /\ UNCHANGED <<main_pc, load_error, te_model, should_stop, is_training,
                   inference_model, config, checkpoint_dirs, stop_files,
                   config_py,
                   dataset, train_on_empty_model, old_train_model,
                   train_from_scratch, pretraining_performance,
                   compare_performance, train_cfg, tick, best_score, improved,
                   result, phases, pre, n_calls, n_returns,
                   cancelled_in_call, cancelled_calls>>

\* lines 494-495: is_training = False; return self.task_environment.model
FinishTrain ==
    /\ pc = "finish"
    /\ is_training' = FALSE
    /\ result' = te_model
    /\ pc' = "idle"
    /\ n_returns' = n_returns + 1
    /\ ForgetLocals
    /\ phases' = <<>>
    /\ pre' = NoPre
    /\ optimized' = NoOptimized
    /\ UNCHANGED <<manager_vars, params_vars, dataset_vars>>
    /\ UNCHANGED <<main_pc, load_error, te_model, should_stop,
                   train_model, inference_model, config, checkpoint_dirs,
                   stop_files, config_py, path, n_calls, cancelled_in_call,
                   cancelled_calls>>


\* ---------------------------------------------------------- cancel_training
\* a cancel_training that puts the stop file into the scratch space
StopTrainingFilepath_ScratchSpace(c) == ScratchSpace

\* line 514: the path of the stop file
StopTrainingFilepath(c) == c.work_dir

\* lines 512-513: self.should_stop = True
CancelTrainingSetFlag ==
    /\ main_pc = "ready"
    /\ should_stop' = TRUE
    /\ main_pc' = "cancel_file"
    /\ cancelled_in_call' = (cancelled_in_call \/ pc # "idle")
    /\ cancelled_calls' = IF pc # "idle" /\ ~cancelled_in_call
                          THEN cancelled_calls + 1 ELSE cancelled_calls
    /\ optimized' = NoOptimized
    /\ UNCHANGED <<manager_vars, params_vars, dataset_vars>>
    /\ UNCHANGED <<load_error, te_model, is_training, train_model,
                   inference_model, config, checkpoint_dirs, stop_files,
                   config_py,
                   train_vars, phases, path, pre, n_calls,
                   n_returns>>

\* lines 514-515: open(stop_training_filepath, 'a').close()
CancelTrainingTouchFile ==
    /\ main_pc = "cancel_file"
    /\ stop_files' = stop_files \cup {StopTrainingFilepath(config)}
    /\ main_pc' = "ready"
    /\ optimized' = NoOptimized
    /\ UNCHANGED <<manager_vars, params_vars, dataset_vars>>
    /\ UNCHANGED <<load_error, te_model, should_stop, is_training,
                   train_model, inference_model, config, checkpoint_dirs, config_py,
                   train_vars, phases, path, pre, n_calls,
                   n_returns, cancelled_in_call, cancelled_calls>>

\* ------------------------------------------------------ optimize_loaded_model
RuntimeErrorOptimization == "RuntimeError: Optimization was unsuccessful."

\* the statements inside the try block (lines 697-703), in order; at most one
\* of them is the first to fail
TryStatements ==
    {"export_model", "list_bin", "save_bin", "list_xml", "save_xml"}

\* what the try block raises when statement `failing` is the first to fail:
\* the export's own error, an IndexError from [...][0] when no '.bin' or no
\* '.xml' file was produced, or the binary repository's error
TryBodyRaises(failing) ==
    IF failing = "export_model" THEN "error raised by export_model"
    ELSE IF failing \in {"list_bin", "list_xml"} THEN "IndexError"
    ELSE IF failing \in {"save_bin", "save_xml"}
    THEN "error raised by save_file_at_path"
    ELSE "none"

\* an except clause that catches errors of the export only
CaughtByExcept_ExportOnly(exc) == exc = "error raised by export_model"

\* line 704: except Exception
CaughtByExcept(exc) ==
    exc \in {"error raised by export_model", "IndexError",
             "error raised by save_file_at_path"}

\* an OpenVINOModel that does not refer to the task environment's model
OpenVINOModel_NoModel(m) == [model |-> NullModel, precision |-> "FP32"]

\* lines 707-710
OpenVINOModel(m) == [model |-> m, precision |-> "FP32"]

\* lines 686-710: what optimize_loaded_model raises or returns when statement
\* `failing` of the try block is the first to fail ("none": all succeed)
GenerateOpenvinoModel(m, failing) ==
    LET exc == TryBodyRaises(failing)
    IN  IF exc = "none"
        THEN [failing |-> failing, raised |-> "returned",
              models |-> <<OpenVINOModel(m)>>]
        ELSE IF CaughtByExcept(exc)
        THEN [failing |-> failing, raised |-> RuntimeErrorOptimization,
              models |-> <<>>]
        ELSE [failing |-> failing, raised |-> exc, models |-> <<>>]

\* optimize_loaded_model, called by the main thread
OptimizeLoadedModel ==
    /\ main_pc = "ready"
    /\ \E failing \in TryStatements \cup {"none"} :
        optimized' = GenerateOpenvinoModel(te_model, failing)
    /\ UNCHANGED <<manager_vars, params_vars, dataset_vars>>
    /\ UNCHANGED <<task_vars, train_vars, phases, path, pre, n_calls,
                   n_returns, cancelled_in_call, cancelled_calls>>

\* ------------------------------------------------------------ specification
MainThread ==
    \/ ConstructTask
    \/ ConstructTaskFails
    \/ SubmitTrain
    \/ CancelTrainingSetFlag
    \/ CancelTrainingTouchFile
    \/ OptimizeLoadedModel

TrainThread ==
    \/ ConfigureDatasets
    \/ CreateTrainingCheckpointDirs
    \/ IsTrainFromScratch
    \/ DoPreEvaluation
    \/ CheckStopBeforeTraining
    \/ StopBeforeTraining
    \/ ReturnCancelled
    \/ DoModelTraining
    \/ TrainLoopIteration
    \/ TrainLoopStops
    \/ TrainLoopCompletes
    \/ CheckStopAfterTraining
    \/ StopAfterTraining
    \/ LoadBestModelAndCheckIfModelImproved
    \/ PersistNewModel
    \/ KeepOldModel
    \/ FinishTrain

Next == MainThread \/ TrainThread

Spec == Init /\ [][Next]_vars

\* The task when the platform also reloads the model between train calls
ReloadNext == Next \/ LoadModel

ReloadSpec == Init /\ [][ReloadNext]_vars

\* The steps of train() the worker thread takes by itself.  An iteration of
\* the training loop and its running out of epochs are left out: how long a
\* training lasts is not assumed.
TrainProgress ==
    \/ ConfigureDatasets
    \/ CreateTrainingCheckpointDirs
    \/ IsTrainFromScratch
    \/ DoPreEvaluation
    \/ CheckStopBeforeTraining
    \/ StopBeforeTraining
    \/ ReturnCancelled
    \/ DoModelTraining
    \/ TrainLoopStops
    \/ CheckStopAfterTraining
    \/ StopAfterTraining
    \/ LoadBestModelAndCheckIfModelImproved
    \/ PersistNewModel
    \/ KeepOldModel
    \/ FinishTrain

\* Both threads keep running: the worker thread takes its next step, the
\* runner stops once it sees the stop file, and a cancel_training call that
\* has set the flag goes on to create the file.
LiveSpec ==
    /\ Spec
    /\ WF_vars(TrainProgress)
    /\ WF_vars(CancelTrainingTouchFile)


\* ------------------------------------------------------------------ helpers
InSeq(x, s) == \E i \in 1..Len(s) : s[i] = x
IsPrefix(s, t) == Len(s) <= Len(t) /\ \A i \in 1..Len(s) : s[i] = t[i]

\* the phases of a train call that runs to the end and saves a model
PhaseOrder ==
    <<"subsets", "checkpoint_dir", "pre_evaluation", "training", "load_best",
      "persist">>

\* a and b are the same module: the same weights, built from the same
\* configuration.  The dataset objects hung into cfg.data.*.ote_dataset for an
\* evaluation (update_dataset_subsets) are not part of the comparison.
SameModule(a, b) ==
    /\ a.w = b.w
    /\ a.cfg.work_dir = b.cfg.work_dir
    /\ a.cfg.exp_name = b.cfg.exp_name

\* module m after an evaluation on dataset ds: the same module, with the
\* subsets of ds hung into its cfg
Evaluated(m, ds) == [m EXCEPT !.cfg.ote_dataset = ds]

\* the round index of the train call in progress (or of the last one)
Round == n_calls - 1

\* ------------------------------------------------------------------ claims

\* C1: in every train call the phases come in the order subsets configured,
\* checkpoint directory created, pre-evaluation, training, best checkpoint
\* loaded, model persisted; a call that is not cancelled has gone through the
\* first five when it finishes; task_environment.model is replaced only by a
\* step that completes this order in the same call; and no train call runs
\* unless load_model has completed in the constructor.
C1_PhasesState ==
    /\ IsPrefix(phases, PhaseOrder)
    /\ pc \in {"decide", "finish"} => IsPrefix(SubSeq(PhaseOrder, 1, 5), phases)
    /\ InSeq("persist", phases) => InSeq("training", phases)
    /\ n_calls > 0 =>
          /\ main_pc \in {"ready", "cancel_file"}
          /\ load_error = "none"
          /\ inference_model # NoModule
          /\ train_model # NoModule
C1_PersistStep ==
    te_model' # te_model => phases' = PhaseOrder /\ pc = "decide"
C1_TrainPhaseOrder == []C1_PhasesState /\ [][C1_PersistStep]_vars
C1_Witness == pc = "finish" /\ path = "persisted" /\ phases = PhaseOrder

\* C2: if should_stop is True at the check after the pre-evaluation, train
\* takes the stop branch: it resets should_stop, never starts the training,
\* leaves task_environment.model and inference_model as they were (the
\* inference model is the same module, evaluated on the dataset), has the
\* pre-call training model as train_model, and returns the model the task
\* environment already held.
C2_StopBranchState ==
    (pc = "return_cancelled" /\ path = "stopped_before_training") =>
        /\ ~InSeq("training", phases)
        /\ te_model = pre.te_model
        /\ SameModule(inference_model, pre.inference_model)
        /\ inference_model = Evaluated(pre.inference_model, dataset)
        /\ train_model = pre.train_model
C2_StopBranchStep ==
    /\ (pc = "check_stop_1" /\ pc' # pc /\ should_stop) => pc' = "stopped_1"
    /\ (pc = "stopped_1" /\ pc' # pc) =>
          ~should_stop' /\ pc' = "return_cancelled"
    /\ (pc = "return_cancelled" /\ pc' # pc
            /\ path = "stopped_before_training") =>
          /\ pc' = "idle"
          /\ result' = pre.te_model
          /\ UNCHANGED <<te_model, inference_model, train_model>>
C2_StopBeforeTraining == []C2_StopBranchState /\ [][C2_StopBranchStep]_vars
C2_Witness ==
    /\ pc = "return_cancelled"
    /\ path = "stopped_before_training"
    /\ train_from_scratch
    /\ ~should_stop
    /\ train_model = pre.train_model

\* C3: if should_stop is True at the check after train_detector has returned,
\* the training counts as cancelled: the best checkpoint is not loaded and no
\* model is persisted, task_environment.model and inference_model are as
\* before the call, train_model is the copy taken before training,
\* should_stop is reset, and train returns the previously held model.
C3_CancelledState ==
    (pc = "return_cancelled" /\ path = "stopped_after_training") =>
        /\ InSeq("training", phases)
        /\ ~InSeq("load_best", phases)
        /\ ~InSeq("persist", phases)
        /\ te_model = pre.te_model
        /\ SameModule(inference_model, pre.inference_model)
        /\ inference_model = Evaluated(pre.inference_model, dataset)
        /\ train_model = old_train_model
        /\ old_train_model = pre.train_model
C3_CancelledStep ==
    /\ (pc = "check_stop_2" /\ pc' # pc /\ should_stop) => pc' = "stopped_2"
    /\ (pc = "stopped_2" /\ pc' # pc) =>
          ~should_stop' /\ pc' = "return_cancelled"
    /\ (pc = "return_cancelled" /\ pc' # pc
            /\ path = "stopped_after_training") =>
          /\ pc' = "idle"
          /\ result' = pre.te_model
          /\ UNCHANGED <<te_model, inference_model, train_model>>
C3_CancelledTraining == []C3_CancelledState /\ [][C3_CancelledStep]_vars
C3_Witness ==
    /\ pc = "return_cancelled"
    /\ path = "stopped_after_training"
    /\ ~should_stop
    /\ train_model = pre.train_model
    /\ train_model.w # LastW(n_calls)

\* C4: cancel_training sets should_stop and then creates (or leaves in place)
\* the stop file in the config manager's current work_dir; from the creation
\* of the round's checkpoint directory on, and so while the training loop
\* runs, that work_dir is the checkpoint directory of the round being
\* trained, which is the directory the training loop polls.
C4_WorkDirState ==
    /\ (n_calls > 0 /\ pc \notin {"start", "checkpoint_dirs"}) =>
          config.work_dir = CheckpointDir(Round)
    /\ pc = "train_detector" => train_cfg.work_dir = config.work_dir
C4_CancelStep ==
    /\ (main_pc = "ready" /\ main_pc' = "cancel_file") => should_stop'
    /\ (main_pc = "cancel_file" /\ main_pc' = "ready") =>
          /\ config.work_dir \in stop_files'
          /\ stop_files \subseteq stop_files'
          /\ pc = "train_detector" =>
                /\ CheckpointDir(Round) \in stop_files'
                /\ SeesStopFile(train_cfg, stop_files')
C4_CancelCreatesStopFile == []C4_WorkDirState /\ [][C4_CancelStep]_vars
C4_Witness ==
    /\ pc = "train_detector"
    /\ tick
    /\ main_pc = "ready"
    /\ should_stop
    /\ SeesStopFile(train_cfg, stop_files)
    /\ CheckpointDir(Round) \in stop_files


\* C5: whenever cancel_training has been called during a train call that is
\* still running - early or while the training loop runs, in the first round
\* or a later one - that train call eventually returns.
C5_CancelledTrainReturns ==
    (pc # "idle" /\ cancelled_in_call) ~> (pc = "idle" /\ n_returns = n_calls)
C5_Witness ==
    /\ pc = "idle"
    /\ n_calls = 2
    /\ n_returns = 2
    /\ cancelled_calls = 2
    /\ path = "stopped_after_training"

\* C6: a train call that starts with a NullModel in the task environment and
\* is not cancelled persists a new model and returns a model that is not a
\* NullModel, also when the best score does not exceed the pre-training score.
C6_FirstModelState ==
    (pc = "finish" /\ IsNullModel(pre.te_model)) =>
        /\ path = "persisted"
        /\ ~IsNullModel(te_model)
        /\ te_model.state_dict = BestW(n_calls)
        /\ SameModule(inference_model, train_model)
C6_FirstModelStep ==
    /\ (pc = "decide" /\ pc' # pc /\ IsNullModel(te_model)) =>
          ~IsNullModel(te_model')
    /\ (pc = "finish" /\ pc' # pc /\ IsNullModel(pre.te_model)) =>
          /\ pc' = "idle"
          /\ ~IsNullModel(result')
          /\ result' = te_model'
C6_FirstModelIsPersisted == []C6_FirstModelState /\ [][C6_FirstModelStep]_vars
C6_Witness ==
    /\ pc = "finish"
    /\ IsNullModel(pre.te_model)
    /\ path = "persisted"
    /\ best_score <= pretraining_performance

\* C7: a train call that starts with a trained model in the task environment
\* and is not cancelled persists a new model exactly if the best score of the
\* round is strictly higher than the pre-training score; otherwise
\* task_environment.model and inference_model are unchanged, the previous
\* model is returned, and train_model is the pre-call training model if
\* training from scratch was requested.
C7_ImprovedState ==
    (pc = "finish" /\ ~IsNullModel(pre.te_model)) =>
        /\ path = "persisted" <=> best_score > pretraining_performance
        /\ path = "persisted" =>
              /\ te_model # pre.te_model
              /\ te_model.state_dict = BestW(n_calls)
              /\ te_model.score = best_score
        /\ path # "persisted" =>
              /\ te_model = pre.te_model
              /\ SameModule(inference_model, pre.inference_model)
              /\ inference_model = Evaluated(pre.inference_model, dataset)
              /\ train_from_scratch => train_model = pre.train_model
C7_ImprovedStep ==
    (pc = "finish" /\ pc' # pc /\ ~IsNullModel(pre.te_model)) =>
        /\ pc' = "idle"
        /\ result' = te_model
        /\ path # "persisted" => result' = pre.te_model
        /\ UNCHANGED <<te_model, inference_model, train_model>>
C7_PersistIffImproved == []C7_ImprovedState /\ [][C7_ImprovedStep]_vars
C7_Witness ==
    /\ pc = "finish"
    /\ ~IsNullModel(pre.te_model)
    /\ path = "not_improved"
    /\ best_score = pretraining_performance
    /\ train_from_scratch
    /\ train_model = pre.train_model

\* C8: every failure of load_model on a saved model is the ValueError
\* 'Could not load the saved model. The model file structure is invalid.'
C8_EveryLoadFailureIsValueError ==
    main_pc = "failed" => load_error = ValueErrorInvalidModel

\* C9: whichever statement of the export fails - the export itself, finding
\* the '.bin' or the '.xml' file, saving either to the binary repository -
\* optimize_loaded_model raises RuntimeError('Optimization was unsuccessful.')
\* and returns no OpenVINOModel.
C9_ExportFailureIsRuntimeError ==
    optimized.failing # "none" =>
        /\ optimized.raised = RuntimeErrorOptimization
        /\ optimized.models = <<>>
C9_Witness ==
    /\ optimized.failing = "list_xml"
    /\ optimized.raised = RuntimeErrorOptimization

\* C10: when the export succeeds, optimize_loaded_model returns a list of
\* exactly one OpenVINOModel of precision FP32 that refers to the task
\* environment's current model; no optimize_loaded_model call changes
\* task_environment.model, train_model or inference_model.
C10_ReturnedState ==
    optimized.raised = "returned" =>
        /\ optimized.failing = "none"
        /\ Len(optimized.models) = 1
        /\ \A i \in 1..Len(optimized.models) :
              /\ optimized.models[i].precision = "FP32"
              /\ optimized.models[i].model = te_model
C10_OptimizeStep ==
    optimized' # NoOptimized =>
        UNCHANGED <<te_model, train_model, inference_model>>
C10_OptimizeReturnsOneModel == []C10_ReturnedState /\ [][C10_OptimizeStep]_vars
C10_Witness ==
    /\ optimized.raised = "returned"
    /\ Len(optimized.models) = 1
    /\ ~IsNullModel(te_model)
    /\ te_model.state_dict = BestW(n_calls)
    /\ optimized.models[1].model = te_model

\* ------------------------------------------------- claims on the task, part 2
\* a config as config_to_string prints it: no dataset entities, label names
CleanedUp(c) ==
    [c EXCEPT !.ote_dataset = None, !.labels = LabelNames(c.labels)]

\* the step is a load_model call: the constructor's, or a later one
IsLoadModelStep ==
    \/ main_pc = "ctor" /\ main_pc' = "ready"
    \/ /\ main_pc = "ready" /\ main_pc' = "ready"
       /\ pc = "idle" /\ pc' = "idle"
       /\ optimized' = NoOptimized

\* C12: for every config the task holds or prints, config_from_string of
\* config_to_string gives the config back with the ote_dataset entries None
\* and labels the list of label names; and the config handed to
\* config_to_string (the manager's config when config.py is written, the
\* training model's cfg when a model is persisted, the copy that becomes the
\* inference model's cfg when there is no model yet) still has its dataset
\* entries and its label entities after the call.
C12_RoundTripState ==
    /\ \A c \in {config, train_model.cfg} :
          /\ IsLabelEntities(c.labels)
          /\ ConfigFromString(ConfigToString(c)) = CleanedUp(c)
    /\ \A f \in config_py :
          f.dir = config.work_dir => ConfigFromString(f.text) = CleanedUp(config)
C12_ConfigToStringStep ==
    /\ (pc = "checkpoint_dirs" /\ pc' # pc) =>
          /\ config'.ote_dataset = dataset
          /\ config'.labels = TaskLabels
          /\ \E f \in config_py' :
                /\ f.dir = config'.work_dir
                /\ ConfigFromString(f.text) = CleanedUp(config')
    /\ (pc = "decide" /\ te_model' # te_model) =>
          /\ train_model'.cfg.ote_dataset = dataset
          /\ train_model'.cfg.labels = TaskLabels
          /\ ConfigFromString(te_model'.config) = CleanedUp(train_model'.cfg)
    /\ (IsLoadModelStep /\ IsNullModel(te_model)) =>
          inference_model'.cfg = config
C13_PersistedState ==
    (pc \in {"finish", "idle"} /\ path = "persisted") =>
        /\ ~IsNullModel(te_model)
        /\ te_model.state_dict = BestW(n_calls)
        /\ SameModule(inference_model,
                      Module(te_model.state_dict,
                             ConfigFromString(te_model.config)))
C13_ReloadStep ==
    (IsLoadModelStep /\ ~IsNullModel(te_model)) =>
        /\ inference_model'.w = te_model.state_dict
        /\ inference_model'.cfg = ConfigFromString(te_model.config)
        /\ main_pc = "ready" => SameModule(inference_model', inference_model)
        /\ te_model' = te_model
C13_SelfContainedReload == []C13_PersistedState /\ [][C13_ReloadStep]_vars
C13_Witness ==
    /\ pc = "idle"
    /\ path = "persisted"
    /\ te_model.state_dict = BestW(n_calls)
    /\ inference_model =
          Module(te_model.state_dict, ConfigFromString(te_model.config))

\* C15: every load_model call (the constructor's or a later one) leaves
\* inference_model.cfg the config parsed from the stored text of the task
\* environment's model when there is one, whatever the config manager's config
\* is, and a copy of the manager's config when there is none; train_model.cfg
\* is a copy of the manager's current config.  While no train call is in
\* progress the inference model's configuration is the one stored with the
\* task environment's model.
C15_InferenceConfigState ==
    (pc = "idle" /\ main_pc \in {"ready", "cancel_file"}
        /\ ~IsNullModel(te_model)) =>
        /\ inference_model.cfg.work_dir = te_model.config.text_work_dir
        /\ inference_model.cfg.exp_name = te_model.config.text_exp_name
C15_LoadModelStep ==
    IsLoadModelStep =>
        /\ ~IsNullModel(te_model) =>
              inference_model'.cfg = ConfigFromString(te_model.config)
        /\ IsNullModel(te_model) => inference_model'.cfg = config
        /\ train_model'.cfg = config
C15_InferenceUsesModelConfig ==
    []C15_InferenceConfigState /\ [][C15_LoadModelStep]_vars
C15_Witness ==
    /\ pc = "idle"
    /\ n_returns = 2
    /\ ~IsNullModel(te_model)
    /\ inference_model.cfg = ConfigFromString(te_model.config)
    /\ train_model.cfg = config
    /\ config.work_dir = CheckpointDir(1)
    /\ inference_model.cfg.work_dir = CheckpointDir(0)

\* C18: every train call, cancelled or not, creates the directory
\* checkpoints_round_N with N the number of checkpoints_round_* directories
\* there were, sets the manager's work_dir to it and the experiment name to
\* train_round_N and writes the config to config.py in it; the k-th train call
\* uses index k-1, so no two train calls have the same work_dir.
C18_RoundDirsState ==
    /\ checkpoint_dirs = 0..(Cardinality(checkpoint_dirs) - 1)
    /\ Cardinality(checkpoint_dirs) =
          IF pc \in {"start", "checkpoint_dirs"} THEN n_calls - 1 ELSE n_calls
    /\ (n_calls > 0 /\ pc \notin {"start", "checkpoint_dirs"}) =>
          /\ config.work_dir = CheckpointDir(Round)
          /\ config.exp_name = ExpName(Round)
    /\ \A n \in checkpoint_dirs : \E f \in config_py :
          /\ f.dir = CheckpointDir(n)
          /\ f.text.text_work_dir = CheckpointDir(n)
          /\ f.text.text_exp_name = ExpName(n)
C18_CreateStep ==
    /\ (pc = "checkpoint_dirs" /\ pc' # pc) =>
          LET N == Cardinality(checkpoint_dirs)
          IN  /\ N = n_calls - 1
              /\ N \notin checkpoint_dirs
              /\ checkpoint_dirs' = checkpoint_dirs \cup {N}
              /\ config'.work_dir = CheckpointDir(N)
              /\ config'.exp_name = ExpName(N)
              /\ [dir |-> CheckpointDir(N), text |-> ConfigToString(config')]
                    \in config_py'
    /\ (pc # "idle" /\ pc' = "idle") =>
          /\ Cardinality(checkpoint_dirs) = n_calls
          /\ config.work_dir = CheckpointDir(n_calls - 1)
    /\ pc # "checkpoint_dirs" => checkpoint_dirs' = checkpoint_dirs
C18_RoundDirPerTrainCall == []C18_RoundDirsState /\ [][C18_CreateStep]_vars
C18_Witness ==
    /\ n_calls = 2
    /\ cancelled_calls = 2
    /\ pc = "return_cancelled"
    /\ checkpoint_dirs = {0, 1}
    /\ config.work_dir = CheckpointDir(1)
    /\ Cardinality(config_py) = 2

\* ------------------------------------------------------- configuration trees
\* An mmcv Config in full: a dictionary from keys to entries, an entry being a
\* nested dictionary or a value.  Values are pairs <<kind, n>>.
Dict(d) == [d |-> d]
Value(x) == [v |-> x]
List(s) == [l |-> s]
IsDict(e) == "d" \in DOMAIN e
IsList(e) == "l" \in DOMAIN e
EmptyDict == <<>>
IntValue(n) == Value(<<"int", n>>)

\* mmcv's Config._merge_a_into_b: every key of a goes into a copy of b; where
\* both hold a dictionary under the key, the two are merged in the same way
RECURSIVE MergeAIntoB(_, _)
MergeAIntoB(a, b) ==
    [k \in DOMAIN a \cup DOMAIN b |->
        IF k \notin DOMAIN a THEN b[k]
        ELSE IF IsDict(a[k]) /\ k \in DOMAIN b /\ IsDict(b[k])
        THEN Dict(MergeAIntoB(a[k].d, b[k].d))
        ELSE a[k]]

\* ------------------------------------------------------------ _compose_config
\* a file name given as None
NoFile == [none |-> "filename"]

\* line 119: config_file_list
ConfigFileList(model_file_, schedule_file, dataset_file, runtime_file) ==
    <<model_file_, schedule_file, dataset_file, runtime_file>>

\* a merge that lets the config made so far override the file
MergeFileIntoConfig_Swapped(update_config, cfg) ==
    MergeAIntoB(cfg, update_config)

\* line 125: config = Config._merge_a_into_b(update_config, config)
MergeFileIntoConfig(update_config, cfg) == MergeAIntoB(update_config, cfg)

\* lines 121-125: the loop over config_file_list from file i on; a file is
\* given by its content (what Config.fromfile reads from it)
RECURSIVE ComposeFrom(_, _, _)
ComposeFrom(files, i, cfg) ==
    IF i > Len(files) THEN cfg
    ELSE IF files[i] = NoFile THEN ComposeFrom(files, i + 1, cfg)
    ELSE ComposeFrom(files, i + 1, MergeFileIntoConfig(files[i], cfg))

\* _compose_config: self.config
ComposeConfig(model_file_, schedule_file, dataset_file, runtime_file) ==
    ComposeFrom(ConfigFileList(model_file_, schedule_file, dataset_file,
                               runtime_file), 1, EmptyDict)

\* The files _compose_config is tried on.  Each defines some of the entries
\* total_epochs, data.samples_per_gpu and data.workers_per_gpu, and gives each
\* entry it defines a value of its own.
FileRoles == <<"model", "schedule", "dataset", "runtime">>
DataKeys == {"samples_per_gpu", "workers_per_gpu"}
FileDefining(role, total, keys) ==
    LET data == [k \in keys |-> Value(<<role, 0>>)]
        top == (IF total THEN {"total_epochs"} ELSE {})
                  \cup (IF keys # {} THEN {"data"} ELSE {})
    IN  [k \in top |-> IF k = "data" THEN Dict(data) ELSE Value(<<role, 0>>)]
FilesOf(role) ==
    {NoFile} \cup
    {Dict(FileDefining(role, total, keys)) :
        total \in BOOLEAN, keys \in SUBSET DataKeys}
FileContent(f) == f.d

\* self.config before _compose_config has run
NotComposed == [none |-> "config"]

\* _compose_config called on the four files
ComposeConfigCall ==
    /\ composed.config = NotComposed
    /\ LET content(f) == IF f = NoFile THEN NoFile ELSE FileContent(f)
           files == composed.files
       IN  composed' =
             [composed EXCEPT
                 !.config = Dict(ComposeConfig(content(files[1]),
                                               content(files[2]),
                                               content(files[3]),
                                               content(files[4])))]
    /\ UNCHANGED <<thread_vars, params_vars, dataset_vars>>
    /\ UNCHANGED <<cm_pc, model_file, env_labels, label_names, conf_params,
                   manager_config, custom_lr_schedule, manager_error,
                   switched>>

\* the four files are any of those above
ComposeInit ==
    /\ TaskInit
    /\ te_model = NullModel
    /\ NoManager
    /\ NoAnalysis
    /\ NoDataset
    /\ \E m \in FilesOf("model"), s \in FilesOf("schedule"),
          d \in FilesOf("dataset"), r \in FilesOf("runtime") :
        composed = [files |-> <<m, s, d, r>>, config |-> NotComposed]

ComposeNext == ComposeConfigCall

ComposeSpec == ComposeInit /\ [][ComposeNext]_vars

\* C11: the config _compose_config makes of the files model, schedule,
\* dataset, runtime (files given as None skipped) holds, for every entry some
\* file defines, the value of the last file in that order that defines it, a
\* nested entry (data.samples_per_gpu, data.workers_per_gpu) counted by
\* itself, so that a file defining one entry of data leaves the other as an
\* earlier file defined it; an entry no file defines is not there.
Defines(f, top, key) ==
    /\ f # NoFile
    /\ top \in DOMAIN f.d
    /\ key # "" => key \in DOMAIN f.d[top].d
Definers(files, top, key) == {i \in 1..4 : Defines(files[i], top, key)}
Latest(S) == CHOOSE i \in S : \A j \in S : j <= i
C11_EntryIsLatest(files, cfg, top, key) ==
    LET definers == Definers(files, top, key)
        there == Defines(cfg, top, key)
    IN  /\ there <=> definers # {}
        /\ there =>
              LET e == IF key = "" THEN cfg.d[top] ELSE cfg.d[top].d[key]
              IN  e = Value(<<FileRoles[Latest(definers)], 0>>)
C11_ComposedOfLatestFiles ==
    composed.config # NotComposed =>
        /\ C11_EntryIsLatest(composed.files, composed.config,
                             "total_epochs", "")
        /\ \A key \in DataKeys :
              C11_EntryIsLatest(composed.files, composed.config, "data", key)
C11_Witness ==
    /\ composed.config # NotComposed
    /\ composed.files[2] = NoFile
    /\ Definers(composed.files, "total_epochs", "") = {1, 4}
    /\ Definers(composed.files, "data", "samples_per_gpu") = {1, 3}
    /\ Definers(composed.files, "data", "workers_per_gpu") = {1}
    /\ composed.config.d.total_epochs = Value(<<"runtime", 0>>)
    /\ composed.config.d.data.d.samples_per_gpu = Value(<<"dataset", 0>>)
    /\ composed.config.d.data.d.workers_per_gpu = Value(<<"model", 0>>)

\* ------------------------------------------ the config manager on its own
\* Values of the configuration.  A value read from a file is the pair of the
\* file's name and 0, so that a value tells which file it came from.
StrValue(s) == Value(<<s, 0>>)
FloatValue(n) == Value(<<"float", n>>)
FromFile(name) == Value(<<name, 0>>)
\* a list of label names, a list of label entities
NamesValue(names) == [names |-> names]
LabelsValue(labels) == [labels |-> labels]

\* d[k] = v on a dictionary, d.pop(k)
Put(d, k, v) == [x \in DOMAIN d \cup {k} |-> IF x = k THEN v ELSE d[x]]
Pop(d, k) == [x \in DOMAIN d \ {k} |-> d[x]]
\* the entries of d under the keys in ks
Restrict(d, ks) == [x \in DOMAIN d \cap ks |-> d[x]]

\* the outcome of a sequence of statements on self.config: the config they
\* left and the exception that ended them, if any
Done(c) == [config |-> c, error |-> "none"]
Raised(c, e) == [config |-> c, error |-> e]

\* self.config.<k1>.<k2> = v: AttributeError if self.config has no <k1>
SetAttr2(r, k1, k2, v) ==
    IF r.error # "none" THEN r
    ELSE IF k1 \in DOMAIN r.config /\ IsDict(r.config[k1])
    THEN Done([r.config EXCEPT ![k1] = Dict(Put(r.config[k1].d, k2, v))])
    ELSE Raised(r.config, "AttributeError")

\* ------------------------------------------------------------ the files
ScheduleSections ==
    {"optimizer", "optimizer_config", "lr_config", "momentum_config"}

\* what a file called name defines in a schedule section
SectionOf(name, section) ==
    CASE section = "optimizer" ->
            Dict([type |-> FromFile(name), lr |-> FromFile(name)])
      [] section = "optimizer_config" ->
            Dict([grad_clip |-> FromFile(name)])
      [] section = "lr_config" ->
            Dict([policy |-> FromFile(name), warmup_iters |-> FromFile(name)])
      [] section = "momentum_config" ->
            Dict([policy |-> FromFile(name)])

\* the box heads of a model file, by the kind of detector
HeadLayouts == {"roi_head_list", "roi_head_single", "bbox_head", "no_head"}
BoxHead == Dict([type |-> FromFile("model"), num_classes |-> FromFile("model")])
ModelOf(layout) ==
    CASE layout = "roi_head_list" ->
            [backbone |-> FromFile("model"),
             roi_head |-> Dict([type |-> FromFile("model"),
                                bbox_head |-> List(<<BoxHead, BoxHead>>)])]
      [] layout = "roi_head_single" ->
            [backbone |-> FromFile("model"),
             roi_head |-> Dict([type |-> FromFile("model"),
                                bbox_head |-> BoxHead])]
      [] layout = "bbox_head" ->
            [backbone |-> FromFile("model"), bbox_head |-> BoxHead]
      [] layout = "no_head" ->
            [backbone |-> FromFile("model")]

\* a model config file: the model, the schedule sections it defines, and
\* total_epochs or not
ModelFile(layout, sections, total) ==
    LET top == {"model"} \cup sections
                  \cup (IF total THEN {"total_epochs"} ELSE {})
    IN  [k \in top |->
            IF k = "model" THEN Dict(ModelOf(layout))
            ELSE IF k = "total_epochs" THEN FromFile("model")
            ELSE SectionOf("model", k)]

\* the data pipeline file of the template
DataPipelineFile ==
    [data |-> Dict([samples_per_gpu |-> FromFile("data_pipeline"),
                    workers_per_gpu |-> FromFile("data_pipeline"),
                    train |-> Dict([type |-> FromFile("data_pipeline")]),
                    val |-> Dict([type |-> FromFile("data_pipeline")]),
                    test |-> Dict([type |-> FromFile("data_pipeline")])])]

\* config_mapper.get_runtime_file('default')
RuntimeFile ==
    [runner |-> Dict([type |-> FromFile("runtime"),
                      max_epochs |-> FromFile("runtime")]),
     checkpoint_config |-> Dict([interval |-> FromFile("runtime")])]

\* config_mapper.get_schedule_file(schedule_name): the sections the file of
\* each schedule defines
ScheduleNames == {"custom", "fixed", "cyclic"}
SectionsOfSchedule(schedule_name) ==
    IF schedule_name = "fixed"
    THEN {"optimizer", "optimizer_config", "lr_config"}
    ELSE {"optimizer", "lr_config", "momentum_config"}
ScheduleFile(schedule_name) ==
    [k \in SectionsOfSchedule(schedule_name) |-> SectionOf(schedule_name, k)]

\* ------------------------------------------------- configurable parameters
MaxParam == 2
WarmupIters == {0, 500}
LearningParameters ==
    [learning_rate_schedule : ScheduleNames,
     learning_rate_warmup_iters : WarmupIters,
     num_epochs : 1..MaxParam,
     learning_rate : 1..MaxParam,
     batch_size : 1..MaxParam]
\* task_environment.labels
LabelLists == {<<Label("rectangle")>>, TaskLabels}
\* the task environments tried, each the model file of its template and its
\* labels: every kind of detector with either list of labels, a detector
\* whose file defines any of the schedule sections, and a file with
\* total_epochs
Environments ==
    {[model_file |-> ModelFile(layout, ScheduleSections, FALSE),
      labels |-> labels] : layout \in HeadLayouts, labels \in LabelLists}
    \cup {[model_file |-> ModelFile("roi_head_list", sections, FALSE),
           labels |-> TaskLabels] : sections \in SUBSET ScheduleSections}
    \cup {[model_file |-> ModelFile("bbox_head", ScheduleSections, TRUE),
           labels |-> TaskLabels]}
RandomSeed == 42

\* ------------------------------------------------------------ the methods
\* _get_custom_lr_schedule
GetCustomLrSchedule(model_config) == Restrict(model_config, ScheduleSections)

\* a pop list that leaves momentum_config in place
SectionsToPop_NoMomentum == {"optimizer", "optimizer_config", "lr_config"}

\* line 235: sections_to_pop
SectionsToPop ==
    {"optimizer", "optimizer_config", "lr_config", "momentum_config"}

\* lines 236-238: remove old optimizer and lr config sections
PopSections(c) == [x \in DOMAIN c \ SectionsToPop |-> c[x]]

\* lines 241-243: every section of custom_lr_schedule put back (a dictionary
\* assigned into a Config is copied into it)
RestoreCustom(c, custom) ==
    [x \in DOMAIN c \cup (SectionsToPop \cap DOMAIN custom) |->
        IF x \in SectionsToPop \cap DOMAIN custom THEN custom[x] ELSE c[x]]

\* _replace_config_section_from_file
ReplaceConfigSectionFromFile(c, file) == MergeAIntoB(file, ConfigCopy(c))

\* lines 253-256: learning rate warmup settings
SetWarmup(r, warmup_iters) ==
    IF warmup_iters > 0
    THEN SetAttr2(SetAttr2(SetAttr2(r,
             "lr_config", "warmup", StrValue("linear")),
             "lr_config", "warmup_ratio", StrValue("1.0 / 3")),
             "lr_config", "warmup_iters", IntValue(warmup_iters))
    ELSE r

\* _update_learning_rate_schedule
UpdateLearningRateSchedule(c, custom, schedule_name, warmup_iters) ==
    LET popped == PopSections(c)
        updated == IF schedule_name = "custom"
                   THEN RestoreCustom(popped, custom)
                   ELSE ReplaceConfigSectionFromFile(
                            popped, ScheduleFile(schedule_name))
    IN  SetWarmup(Done(updated), warmup_iters)

\* an update that leaves optimizer.lr as the schedule gave it
UpdateProjectConfiguration_NoLr(c, custom, p) ==
    LET r1 == UpdateLearningRateSchedule(c, custom,
                  p.learning_rate_schedule, p.learning_rate_warmup_iters)
        r2 == SetAttr2(r1, "runner", "max_epochs", IntValue(p.num_epochs))
    IN  SetAttr2(r2, "data", "samples_per_gpu", IntValue(p.batch_size))

\* update_project_configuration
UpdateProjectConfiguration(c, custom, p) ==
    LET r1 == UpdateLearningRateSchedule(c, custom,
                  p.learning_rate_schedule, p.learning_rate_warmup_iters)
        r2 == SetAttr2(r1, "runner", "max_epochs", IntValue(p.num_epochs))
        r3 == SetAttr2(r2, "optimizer", "lr", FloatValue(p.learning_rate))
    IN  SetAttr2(r3, "data", "samples_per_gpu", IntValue(p.batch_size))

\* set_data_classes
SetDataClasses(c, names) ==
    LET data == c.data.d
        withClasses(subset) ==
            Dict(Put(data[subset].d, "classes", NamesValue(names)))
    IN  [c EXCEPT !.data =
            Dict([k \in DOMAIN data |->
                     IF k \in {"train", "val", "test"}
                     THEN withClasses(k) ELSE data[k]])]

\* head.num_classes = len(self.label_names)
WithNumClasses(head, n) == Dict(Put(head.d, "num_classes", IntValue(n)))

\* box heads of which only the first element of a list is updated
HeadsWithNumClasses_First(heads, n) ==
    List([i \in DOMAIN heads.l |->
             IF i = 1 THEN WithNumClasses(heads.l[i], n) ELSE heads.l[i]])

\* lines 262-263: for head in bbox_head: head.num_classes = ...
HeadsWithNumClasses(heads, n) ==
    List([i \in DOMAIN heads.l |-> WithNumClasses(heads.l[i], n)])

\* _update_model_classification_heads
UpdateModelClassificationHeads(c, names) ==
    LET model == c.model.d
        n == Len(names)
    IN  IF "roi_head" \in DOMAIN model
        THEN LET roi_head == model.roi_head.d
                 bbox_head == roi_head.bbox_head
                 new == IF IsList(bbox_head)
                        THEN HeadsWithNumClasses(bbox_head, n)
                        ELSE WithNumClasses(bbox_head, n)
             IN  [c EXCEPT !.model =
                     Dict([model EXCEPT !.roi_head =
                              Dict([roi_head EXCEPT !.bbox_head = new])])]
        ELSE IF "bbox_head" \in DOMAIN model
        THEN [c EXCEPT !.model =
                 Dict([model EXCEPT !.bbox_head =
                          WithNumClasses(model.bbox_head, n)])]
        ELSE c

\* lines 73-74: runner.max_epochs taken from total_epochs if there is one
FixConfig(c) ==
    IF "total_epochs" \in DOMAIN c
    THEN [c EXCEPT !.runner =
             Dict(Put(c.runner.d, "max_epochs", c.total_epochs))]
    ELSE c

\* __init__ up to the call of update_project_configuration
ConstructedConfig(model_config, labels, scratch_space, random_seed) ==
    LET composed_ == ComposeConfig(model_config, NoFile, DataPipelineFile,
                                   RuntimeFile)
        fixed == FixConfig(composed_)
        assigned ==
            [k \in DOMAIN fixed \cup {"gpu_ids", "work_dir", "seed", "labels"}
                |-> CASE k = "gpu_ids" -> Value(<<"range", 1>>)
                      [] k = "work_dir" -> Value(scratch_space)
                      [] k = "seed" -> IntValue(random_seed)
                      [] k = "labels" -> LabelsValue(labels)
                      [] OTHER -> fixed[k]]
        names == LabelNames(labels)
    IN  UpdateModelClassificationHeads(SetDataClasses(assigned, names), names)

\* MMDetectionConfigManager(task_environment, task_type, scratch_space)
ConstructManager ==
    /\ cm_pc = "new"
    /\ LET r == UpdateProjectConfiguration(
                    ConstructedConfig(model_file, env_labels, ScratchSpace,
                                      RandomSeed),
                    GetCustomLrSchedule(model_file), conf_params)
       IN  /\ manager_error' = r.error
           /\ IF r.error = "none"
              THEN /\ cm_pc' = "ready"
                   /\ manager_config' = Dict(r.config)
                   /\ custom_lr_schedule' =
                          Dict(GetCustomLrSchedule(model_file))
                   /\ label_names' = LabelNames(env_labels)
              ELSE /\ cm_pc' = "failed"
                   /\ UNCHANGED <<manager_config, custom_lr_schedule,
                                  label_names>>
    /\ switched' = FALSE
    /\ UNCHANGED <<model_file, env_labels, conf_params, composed>>
    /\ UNCHANGED <<thread_vars, params_vars, dataset_vars>>

\* update_configurable_parameters(task_environment) of the task: the new
\* parameters become those of the task environment, then
\* update_project_configuration runs on them
UpdateConfigurableParameters ==
    /\ cm_pc = "ready"
    /\ \E p \in LearningParameters :
          LET r == UpdateProjectConfiguration(manager_config.d,
                       custom_lr_schedule.d, p)
          IN  /\ conf_params' = p
              /\ manager_config' = Dict(r.config)
              /\ manager_error' = r.error
              /\ switched' = (p.learning_rate_schedule
                                 # conf_params.learning_rate_schedule)
    /\ UNCHANGED <<cm_pc, model_file, env_labels, label_names,
                   custom_lr_schedule, composed>>
    /\ UNCHANGED <<thread_vars, params_vars, dataset_vars>>

\* a task environment: the model file of its template, its labels and its
\* configurable parameters
ManagerInit ==
    /\ TaskInit
    /\ te_model = NullModel
    /\ NoComposed
    /\ NoAnalysis
    /\ NoDataset
    /\ cm_pc = "new"
    /\ \E e \in Environments :
          /\ model_file = e.model_file
          /\ env_labels = e.labels
    /\ conf_params \in LearningParameters
    /\ label_names = <<>>
    /\ manager_config = None
    /\ custom_lr_schedule = None
    /\ manager_error = "none"
    /\ switched = FALSE

ManagerNext == ConstructManager \/ UpdateConfigurableParameters

ManagerSpec == ManagerInit /\ [][ManagerNext]_vars

\* --------------------------------------------- claims on the config manager
\* the manager has been constructed
ManagerReady == cm_pc = "ready"
\* the last manager call returned without an exception
ReturnedNormally == ManagerReady /\ manager_error = "none"

\* C14: whenever the config manager has been constructed and its last call
\* (the constructor or an update_configurable_parameters) has returned, the
\* managed config has runner.max_epochs, optimizer.lr and data.samples_per_gpu
\* equal to num_epochs, learning_rate and batch_size of the most recent
\* configurable parameters; the optimizer.lr that the file of a newly chosen
\* schedule defines does not stay.
C14_ParametersInConfig ==
    ReturnedNormally =>
        /\ manager_config.d.runner.d.max_epochs
               = IntValue(conf_params.num_epochs)
        /\ manager_config.d.optimizer.d.lr
               = FloatValue(conf_params.learning_rate)
        /\ manager_config.d.data.d.samples_per_gpu
               = IntValue(conf_params.batch_size)
C14_Witness ==
    /\ ReturnedNormally
    /\ switched
    /\ conf_params.learning_rate_schedule = "fixed"
    /\ "optimizer" \in DOMAIN model_file
    /\ manager_config.d.optimizer.d.type = FromFile("fixed")
    /\ ScheduleFile("fixed").optimizer.d.lr
           # FloatValue(conf_params.learning_rate)
    /\ manager_config.d.optimizer.d.lr = FloatValue(conf_params.learning_rate)

\* C16: in every state of a constructed manager, the sections among
\* optimizer, optimizer_config, lr_config and momentum_config that the config
\* holds are exactly those its current schedule defines: those of the model
\* config file for 'custom', those of the schedule's file otherwise.  Every
\* entry of these sections either comes from that one file or was written by
\* the last call from the most recent parameters (optimizer.lr, and the three
\* warmup entries of lr_config when warmup_iters > 0); nothing of another
\* schedule and nothing of earlier parameters is left.
C16_Source ==
    IF conf_params.learning_rate_schedule = "custom" THEN "model"
    ELSE conf_params.learning_rate_schedule
C16_SectionsOfSource ==
    IF conf_params.learning_rate_schedule = "custom"
    THEN DOMAIN model_file \cap ScheduleSections
    ELSE DOMAIN ScheduleFile(conf_params.learning_rate_schedule)
C16_EntryOfSourceOrParams(section, key, entry) ==
    \/ entry = FromFile(C16_Source)
    \/ /\ section = "optimizer"
       /\ key = "lr"
       /\ entry = FloatValue(conf_params.learning_rate)
    \/ /\ section = "lr_config"
       /\ conf_params.learning_rate_warmup_iters > 0
       /\ \/ key = "warmup" /\ entry = StrValue("linear")
          \/ key = "warmup_ratio" /\ entry = StrValue("1.0 / 3")
          \/ /\ key = "warmup_iters"
             /\ entry = IntValue(conf_params.learning_rate_warmup_iters)
C16_NothingOfPreviousSchedule ==
    ManagerReady =>
        /\ DOMAIN manager_config.d \cap ScheduleSections
               = C16_SectionsOfSource
        /\ \A section \in DOMAIN manager_config.d \cap ScheduleSections :
              \A key \in DOMAIN manager_config.d[section].d :
                 C16_EntryOfSourceOrParams(
                     section, key, manager_config.d[section].d[key])
        /\ custom_lr_schedule.d = Restrict(model_file, ScheduleSections)
C16_Witness ==
    /\ ReturnedNormally
    /\ switched
    /\ conf_params.learning_rate_schedule = "fixed"
    /\ conf_params.learning_rate_warmup_iters = 0
    /\ "momentum_config" \in DOMAIN model_file
    /\ "momentum_config" \notin DOMAIN manager_config.d
    /\ manager_config.d.lr_config = SectionOf("fixed", "lr_config")

\* C17: once the config manager is constructed, every box head of the model
\* config (each element of roi_head.bbox_head when it is a list, the single
\* roi_head.bbox_head otherwise, model.bbox_head when there is no roi_head)
\* has num_classes equal to the number of labels of the task environment,
\* data.train, data.val and data.test have classes equal to the list of the
\* labels' names, work_dir is the scratch space and seed the random seed.
C17_BoxHeads(model) ==
    IF "roi_head" \in DOMAIN model
    THEN IF IsList(model.roi_head.d.bbox_head)
         THEN {model.roi_head.d.bbox_head.l[i] :
                  i \in DOMAIN model.roi_head.d.bbox_head.l}
         ELSE {model.roi_head.d.bbox_head}
    ELSE IF "bbox_head" \in DOMAIN model THEN {model.bbox_head}
    ELSE {}
C17_NamesOfLabels == [i \in DOMAIN env_labels |-> <<"str", env_labels[i][2]>>]
C17_HeadsAndClasses ==
    ManagerReady =>
        /\ \A head \in C17_BoxHeads(manager_config.d.model.d) :
              head.d.num_classes = IntValue(Len(env_labels))
        /\ \A subset \in {"train", "val", "test"} :
              manager_config.d.data.d[subset].d.classes
                  = NamesValue(C17_NamesOfLabels)
        /\ manager_config.d.work_dir = Value(ScratchSpace)
        /\ manager_config.d.seed = IntValue(RandomSeed)
C17_Witness ==
    /\ ManagerReady
    /\ ~switched
    /\ Len(env_labels) = 2
    /\ IsList(manager_config.d.model.d.roi_head.d.bbox_head)
    /\ Cardinality(C17_BoxHeads(model_file.model.d)) = 1
    /\ Len(manager_config.d.model.d.roi_head.d.bbox_head.l) = 2
    /\ \A i \in 1..2 :
          manager_config.d.model.d.roi_head.d.bbox_head.l[i].d.num_classes
              = IntValue(2)
    /\ manager_config.d.data.d.val.d.classes
           = NamesValue(<<Str("rectangle"), Str("triangle")>>)

\* ------------------------------- analyse and compute_performance on their own
MaxConfidence == 2
Confidences == 0..MaxConfidence

\* conf_params.postprocessing of the task environment
Postprocessing ==
    [confidence_threshold : Confidences,
     result_based_confidence_threshold : BOOLEAN]

\* analyse_parameters: None, or AnalyseParameters with is_evaluation
NoAnalyseParameters == [none |-> "analyse_parameters"]
AnalyseParametersGiven ==
    {NoAnalyseParameters} \cup {[is_evaluation |-> b] : b \in BOOLEAN}

\* line 162: is_evaluation
IsEvaluation(analyse_parameters) ==
    /\ analyse_parameters # NoAnalyseParameters
    /\ analyse_parameters.is_evaluation

\* _get_confidence
GetConfidence(params, is_evaluation) ==
    IF is_evaluation /\ params.result_based_confidence_threshold
    THEN 0
    ELSE params.confidence_threshold

\* what the model puts out for an item: detections with a probability and a
\* box, one of them with an empty box
Detections ==
    {[probability |-> p, area |-> 1] : p \in Confidences}
        \cup {[probability |-> MaxConfidence, area |-> 0]}

\* lines 196-213: the shapes appended to the item
Shapes(output, confidence_threshold) ==
    {d \in output : ~(d.probability < confidence_threshold) /\ ~(d.area <= 0)}

\* before the first call of analyse, of compute_performance
NotAnalysed == [none |-> "analysed"]
NotComputed == [none |-> "performance"]

\* analyse(dataset, analyse_parameters)
Analyse ==
    /\ \E analyse_parameters \in AnalyseParametersGiven,
          output \in SUBSET Detections :
          LET is_evaluation == IsEvaluation(analyse_parameters)
              confidence_threshold ==
                  GetConfidence(postprocessing, is_evaluation)
          IN  analysed' =
                  [is_evaluation |-> is_evaluation,
                   configured |-> postprocessing.confidence_threshold,
                   output |-> output,
                   confidence_threshold |-> confidence_threshold,
                   shapes |-> Shapes(output, confidence_threshold)]
    /\ UNCHANGED <<postprocessing, performance>>
    /\ UNCHANGED <<thread_vars, manager_vars, dataset_vars>>

\* resultset.purpose, f_measure_metrics.best_confidence_threshold
Purposes == {"EVALUATION", "TEST", "PREEVALUATION"}
NoBest == [none |-> "best_confidence_threshold"]
BestThresholds == {NoBest} \cup {[value |-> c] : c \in Confidences}

\* a purpose check that lets every result set through
IsEvaluationPurpose_Any(purpose) == TRUE

\* line 528: resultset.purpose is ResultsetPurpose.EVALUATION
IsEvaluationPurpose(purpose) == purpose = "EVALUATION"

\* compute_performance(resultset)
ComputePerformance ==
    /\ \E purpose \in Purposes, best \in BestThresholds :
          LET params == postprocessing
              call(raised) ==
                  [purpose |-> purpose, best |-> best, raised |-> raised]
          IN  IF IsEvaluationPurpose(purpose)
              THEN IF params.result_based_confidence_threshold
                   THEN IF best # NoBest
                        THEN /\ postprocessing' =
                                    [params EXCEPT
                                        !.confidence_threshold = best.value]
                             /\ performance' = call("none")
                        ELSE /\ UNCHANGED postprocessing
                             /\ performance' = call("ValueError")
                   ELSE /\ postprocessing' = params
                        /\ performance' = call("none")
              ELSE /\ UNCHANGED postprocessing
                   /\ performance' = call("none")
    /\ UNCHANGED analysed
    /\ UNCHANGED <<thread_vars, manager_vars, dataset_vars>>

AnalysisInit ==
    /\ TaskInit
    /\ te_model = NullModel
    /\ NoManager
    /\ NoComposed
    /\ NoDataset
    /\ postprocessing \in Postprocessing
    /\ analysed = NotAnalysed
    /\ performance = NotComputed

AnalysisNext == Analyse \/ ComputePerformance

AnalysisSpec == AnalysisInit /\ [][AnalysisNext]_vars

\* C19: whenever analyse was called for evaluation, the confidence threshold
\* it used is 0 and every detection with a box of positive area became a
\* shape, whatever its confidence; whenever it was called not for evaluation,
\* the threshold it used is the configured confidence_threshold.
C19_EvaluationThresholdIsZero ==
    analysed # NotAnalysed =>
        IF analysed.is_evaluation
        THEN /\ analysed.confidence_threshold = 0
             /\ analysed.shapes = {d \in analysed.output : d.area > 0}
        ELSE analysed.confidence_threshold = analysed.configured

\* C20: a compute_performance call on a result set of another purpose than
\* EVALUATION leaves the configurable parameters of the task environment as
\* they are and raises nothing; on an EVALUATION result set with result-based
\* thresholding enabled it sets confidence_threshold to the best threshold
\* found and changes nothing else, or raises ValueError with the parameters
\* as they were if there is no best threshold; with result-based thresholding
\* disabled it leaves the values of the parameters as they are.
C20_IsComputePerformanceStep ==
    analysed' = analysed /\ performance' # NotComputed
C20_ComputePerformanceStep ==
    C20_IsComputePerformanceStep =>
        IF performance'.purpose # "EVALUATION"
        THEN /\ postprocessing' = postprocessing
             /\ performance'.raised = "none"
        ELSE IF ~postprocessing.result_based_confidence_threshold
        THEN /\ postprocessing' = postprocessing
             /\ performance'.raised = "none"
        ELSE IF performance'.best = NoBest
        THEN /\ postprocessing' = postprocessing
             /\ performance'.raised = "ValueError"
        ELSE /\ postprocessing' =
                    [postprocessing EXCEPT
                        !.confidence_threshold = performance'.best.value]
             /\ performance'.raised = "none"
C20_ParametersChangeOnlyForEvaluation == [][C20_ComputePerformanceStep]_vars
C20_Witness ==
    /\ performance # NotComputed
    /\ performance.purpose = "EVALUATION"
    /\ performance.raised = "none"
    /\ performance.best # NoBest
    /\ postprocessing.result_based_confidence_threshold
    /\ postprocessing.confidence_threshold = performance.best.value
    /\ analysed # NotAnalysed
    /\ analysed.configured # postprocessing.confidence_threshold

\* ------------------------------------------ claims on the task, part 3
\* a step in which a train call returns
IsTrainReturnStep == n_returns' = n_returns + 1

\* C23: should_stop is False at every return of a train call, whenever the
\* calls of cancel_training fell during it - also after the stop check that
\* follows the training, or while the new model is persisted.
C23_ReturnStep == IsTrainReturnStep => should_stop' = FALSE
C23_ShouldStopFalseAtReturn == [][C23_ReturnStep]_vars

\* C24: a train call returns after it has run its training loop, and not by
\* one of the two stop branches, if no cancel_training call was made during
\* it or during any train call before it; the cancel_training calls made
\* while no train call was in progress, before the first train call or
\* between two of them, make no difference to it.
C24_ReturnStep ==
    (IsTrainReturnStep /\ cancelled_calls = 0) =>
        /\ InSeq("training", phases)
        /\ path \in {"persisted", "not_improved"}
C24_IdleCancelHasNoEffect == [][C24_ReturnStep]_vars

\* -------------------------------------- the dataset adapter on its own
\* Subset.TRAINING, Subset.VALIDATION, Subset.TESTING, in the order of line 195
SubsetOrder == <<"TRAINING", "VALIDATION", "TESTING">>
Subsets == {SubsetOrder[i] : i \in DOMAIN SubsetOrder}

\* an annotation file or data root not given (None)
NotGiven == [none |-> "path"]
\* os.path.abspath of a path given as <<name, 0>>
Abspath(p) == <<p[1], 1>>

\* the 'categories' of the annotation files tried, each a list of categories
\* with an id and a name: none, two in the order of their ids, the same two
\* in the other order, the two names under swapped ids, and one category
Category(id, name) == [id |-> id, name |-> name]
CategoryLists ==
    {<<>>,
     <<Category(1, "rectangle"), Category(2, "triangle")>>,
     <<Category(2, "triangle"), Category(1, "rectangle")>>,
     <<Category(1, "triangle"), Category(2, "rectangle")>>,
     <<Category(1, "rectangle")>>}

\* sorted(content['categories'], key=lambda x: x['id']): a stable sort
RECURSIVE InsertById(_, _)
InsertById(c, sorted) ==
    IF sorted = <<>> THEN <<c>>
    ELSE IF c.id < sorted[1].id THEN <<c>> \o sorted
    ELSE <<sorted[1]>> \o InsertById(c, Tail(sorted))
RECURSIVE SortedById(_)
SortedById(categories) ==
    IF categories = <<>> THEN <<>>
    ELSE InsertById(categories[Len(categories)],
                    SortedById(SubSeq(categories, 1, Len(categories) - 1)))

\* get_classes_from_annotation
GetClassesFromAnnotation(categories) ==
    [names |-> [i \in DOMAIN categories |-> SortedById(categories)[i].name]]

\* self.labels = None; a list is true in a condition if it is not empty
NoLabels == [none |-> "labels"]
IsTrue(labels) == labels # NoLabels /\ labels.names # <<>>

\* lines 195-201 from subset i on: the labels set and the exception raised
RECURSIVE LabelsFrom(_, _, _)
LabelsFrom(files, i, self_labels) ==
    IF i > Len(SubsetOrder) THEN [labels |-> self_labels, error |-> "none"]
    ELSE LET file == files[SubsetOrder[i]]
         IN  IF file = NotGiven THEN LabelsFrom(files, i + 1, self_labels)
             ELSE LET labels == GetClassesFromAnnotation(file.categories)
                  IN  IF IsTrue(self_labels) /\ self_labels # labels
                      THEN [labels |-> self_labels, error |-> "RuntimeError"]
                      ELSE LabelsFrom(files, i + 1, labels)

\* set_labels_obtained_from_annotation
SetLabelsObtainedFromAnnotation(files) ==
    LET r == LabelsFrom(files, 1, NoLabels)
    IN  IF r.error = "none" /\ r.labels = NoLabels
        THEN [labels |-> r.labels, error |-> "AssertionError"]
        ELSE r

\* the files given to the constructor: for each subset none, or an annotation
\* file with its data root
AnnotationFile(subset, categories) ==
    [ann_file |-> <<subset, 0>>, data_root |-> <<subset, 0>>,
     categories |-> categories]
GivenFiles ==
    [Subsets -> {NotGiven}
            \cup {[categories |-> c] : c \in CategoryLists}]

\* lines 176-190: self.ann_files, self.data_roots
AnnFiles(files) ==
    [s \in Subsets |-> IF files[s] = NotGiven THEN NotGiven
                       ELSE [path |-> Abspath(files[s].ann_file)]]
DataRoots(files) ==
    [s \in Subsets |-> IF files[s] = NotGiven THEN NotGiven
                       ELSE [path |-> Abspath(files[s].data_root)]]

NoCocoDataset == [none |-> "coco_dataset"]
NoAdapter == [none |-> "adapter"]
NotReturned == [none |-> "returned"]
NullDataset == [null |-> "NullDataset"]

\* MMDatasetAdapter(train_ann_file, train_data_root, ...)
ConstructAdapter ==
    /\ ds_pc = "new"
    /\ LET r == SetLabelsObtainedFromAnnotation(ds_files)
       IN  /\ ds_error' = r.error
           /\ IF r.error = "none"
              THEN /\ ds_pc' = "ready"
                   /\ adapter' = [ann_files |-> AnnFiles(ds_files),
                                  data_roots |-> DataRoots(ds_files),
                                  coco_dataset |-> NoCocoDataset,
                                  labels |-> r.labels]
              ELSE /\ ds_pc' = "failed"
                   /\ UNCHANGED adapter
    /\ UNCHANGED <<ds_files, returned>>
    /\ UNCHANGED <<thread_vars, manager_vars, params_vars>>

\* lines 216-221: CocoDataset(...) with test_mode set back to False
CocoDataset(ann_file, data_root, classes) ==
    [ann_file |-> ann_file, data_root |-> data_root, classes |-> classes,
     test_mode |-> FALSE]

\* init_as_subset: whether the dataset was initialised, and the dataset after
InitAsSubset(self, subset) ==
    IF self.ann_files[subset] = NotGiven
    THEN [ok |-> FALSE, self |-> self]
    ELSE [ok |-> TRUE,
          self |-> [self EXCEPT !.coco_dataset =
                       CocoDataset(self.ann_files[subset],
                                   self.data_roots[subset], self.labels)]]

\* a get_subset that initialises the adapter itself and returns it
DeepCopyOfSelf_Self(self, copy) == copy

\* line 253: dataset = deepcopy(self); what becomes of self when the copy is
\* changed into copy
DeepCopyOfSelf(self, copy) == self

\* get_subset(subset)
GetSubset ==
    /\ ds_pc = "ready"
    /\ \E subset \in Subsets :
          LET r == InitAsSubset(adapter, subset)
          IN  /\ adapter' = DeepCopyOfSelf(adapter, r.self)
              /\ returned' =
                    [returned EXCEPT
                        ![subset] = IF r.ok THEN r.self ELSE NullDataset]
    /\ UNCHANGED <<ds_pc, ds_files, ds_error>>
    /\ UNCHANGED <<thread_vars, manager_vars, params_vars>>

DatasetInit ==
    /\ TaskInit
    /\ te_model = NullModel
    /\ NoManager
    /\ NoComposed
    /\ NoAnalysis
    /\ ds_pc = "new"
    /\ \E given \in GivenFiles :
          ds_files = [s \in Subsets |->
                         IF given[s] = NotGiven THEN NotGiven
                         ELSE AnnotationFile(s, given[s].categories)]
    /\ adapter = NoAdapter
    /\ ds_error = "none"
    /\ returned = [s \in Subsets |-> NotReturned]

DatasetNext == ConstructAdapter \/ GetSubset

DatasetSpec == DatasetInit /\ [][DatasetNext]_vars

\* ------------------------------------------- claims on the dataset adapter
\* the label lists of the annotation files given, each the names of the
\* file's categories by ascending id
C21_Given == {s \in Subsets : ds_files[s] # NotGiven}
C21_NamesById(categories) ==
    [i \in DOMAIN categories |->
        (CHOOSE c \in {categories[j] : j \in DOMAIN categories} :
            Cardinality({j \in DOMAIN categories :
                            categories[j].id < c.id}) = i - 1).name]
C21_Lists == {C21_NamesById(ds_files[s].categories) : s \in C21_Given}

\* C21: the construction of an MMDatasetAdapter fails on the assertion if no
\* annotation file is given, raises RuntimeError if two of the files given
\* yield different label lists (names by ascending category id), and
\* otherwise leaves labels equal to the one list all given files yield.
C21_LabelsOfAnnotationFiles ==
    ds_pc \in {"ready", "failed"} =>
        IF C21_Given = {}
        THEN ds_pc = "failed" /\ ds_error = "AssertionError"
        ELSE IF Cardinality(C21_Lists) > 1
        THEN ds_pc = "failed" /\ ds_error = "RuntimeError"
        ELSE /\ ds_pc = "ready"
             /\ \A l \in C21_Lists : adapter.labels = [names |-> l]

\* the adapter as its constructor left it
C22_AsConstructed ==
    /\ adapter.coco_dataset = NoCocoDataset
    /\ \A s \in Subsets :
          IF ds_files[s] = NotGiven
          THEN /\ adapter.ann_files[s] = NotGiven
               /\ adapter.data_roots[s] = NotGiven
          ELSE /\ adapter.ann_files[s] = [path |-> <<s, 1>>]
               /\ adapter.data_roots[s] = [path |-> <<s, 1>>]
C22_IsGetSubsetStep == ds_pc = "ready" /\ ds_pc' = "ready"

\* C22: what get_subset returned for a subset is a NullDataset if no
\* annotation file was given for it, and otherwise a dataset with the
\* adapter's ann_files, data_roots and labels whose coco_dataset is built on
\* that subset's annotation file and data root with the adapter's labels.
\* The adapter stays as its constructor left it (coco_dataset None), every
\* get_subset call leaves it as it was, and leaves what was returned for the
\* other subsets as it was.
C22_ReturnedState ==
    ds_pc = "ready" =>
        /\ C22_AsConstructed
        /\ \A s \in Subsets :
              returned[s] # NotReturned =>
                 IF ds_files[s] = NotGiven
                 THEN returned[s] = NullDataset
                 ELSE /\ returned[s] # NullDataset
                      /\ returned[s].ann_files = adapter.ann_files
                      /\ returned[s].data_roots = adapter.data_roots
                      /\ returned[s].labels = adapter.labels
                      /\ returned[s].coco_dataset.ann_file
                             = adapter.ann_files[s]
                      /\ returned[s].coco_dataset.data_root
                             = adapter.data_roots[s]
                      /\ returned[s].coco_dataset.classes = adapter.labels
C22_GetSubsetStep ==
    C22_IsGetSubsetStep =>
        /\ adapter' = adapter
        /\ Cardinality({s \in Subsets : returned'[s] # returned[s]}) <= 1
C22_GetSubsetLeavesAdapter ==
    []C22_ReturnedState /\ [][C22_GetSubsetStep]_vars
C22_Witness ==
    /\ ds_pc = "ready"
    /\ adapter.coco_dataset = NoCocoDataset
    /\ returned["TRAINING"] = NullDataset
    /\ returned["VALIDATION"] \notin {NotReturned, NullDataset}
    /\ returned["TESTING"] \notin {NotReturned, NullDataset}
    /\ returned["VALIDATION"].coco_dataset.ann_file
           = [path |-> <<"VALIDATION", 1>>]
    /\ returned["TESTING"].coco_dataset.ann_file
           = [path |-> <<"TESTING", 1>>]

=============================================================================
